---- MODULE Spec2Model ----
(***************************************************************************)
(* Model of the RTBH pusher's merge / exclude / render pipeline:            *)
(*   rtbh_pusher.py            merge_ip_ranges, calculate_mask,            *)
(*                             generate_cisco_commands                     *)
(*   scripts/merge_ip_ranges.py, scripts/cisco_commands.py                  *)
(*                             the stand-alone variants of the same steps  *)
(*                                                                         *)
(* Text is modelled as a sequence of lexemes: a decimal numeral ("10"),    *)
(* one of the characters ".", "/", "#", " ", "\n", or another non-numeric  *)
(* word ("x", "note").  A network is a record [a |-> four octets,          *)
(* p |-> prefix length]; an IPSet is the set of the networks it stores.    *)
(***************************************************************************)
EXTENDS Integers, Sequences, FiniteSets, TLC

\* ------------------------------------------------------------------ text

WS == {" ", "\n", "\r", "\t"}

NumeralRange == 0..299

\* str(n) for the integers the model prints
Numerals == {ToString(n) : n \in NumeralRange}

\* int(s) for a numeral: the inverse of str
DecVal == [s \in Numerals |-> CHOOSE n \in NumeralRange : ToString(n) = s]

RECURSIVE lstrip(_)
lstrip(s) == IF s # <<>> /\ Head(s) \in WS THEN lstrip(Tail(s)) ELSE s

RECURSIVE rstrip(_)
rstrip(s) ==
    IF s # <<>> /\ s[Len(s)] \in WS THEN rstrip(SubSeq(s, 1, Len(s) - 1)) ELSE s

\* str.strip()
strip(s) == rstrip(lstrip(s))

\* str.startswith(c)
startswith(s, c) == s # <<>> /\ Head(s) = c

\* c in s
contains(s, c) == \E i \in 1..Len(s) : s[i] = c

\* str.find(c), 1-based; 0 when c does not occur
find(s, c) ==
    IF contains(s, c)
    THEN CHOOSE i \in 1..Len(s) : s[i] = c /\ \A j \in 1..(i - 1) : s[j] # c
    ELSE 0

\* the two parts of s.split('/') for a string with one '/'
BeforeSlash(s) == IF contains(s, "/") THEN SubSeq(s, 1, find(s, "/") - 1) ELSE s
AfterSlash(s) == SubSeq(s, find(s, "/") + 1, Len(s))

RECURSIVE Reverse(_)
Reverse(s) == IF s = <<>> THEN <<>> ELSE Append(Reverse(Tail(s)), Head(s))

\* the lines of a text: its parts between the newlines
RECURSIVE SplitLines(_, _)
SplitLines(text, line) ==
    IF text = <<>> THEN <<line>>
    ELSE IF Head(text) = "\n" THEN <<line>> \o SplitLines(Tail(text), <<>>)
    ELSE SplitLines(Tail(text), Append(line, Head(text)))

\* sep.join(parts)
RECURSIVE join(_, _)
join(sep, parts) ==
    IF parts = <<>> THEN <<>>
    ELSE IF Len(parts) = 1 THEN Head(parts)
    ELSE Head(parts) \o sep \o join(sep, Tail(parts))

\* ------------------------------------------------------- IPv4 networks

AddrWidth == 32

\* four dot-separated decimal octets, each in 0..255
DottedQuad(s) ==
    /\ Len(s) = 7
    /\ s[2] = "." /\ s[4] = "." /\ s[6] = "."
    /\ \A i \in {1, 3, 5, 7} : s[i] \in Numerals /\ DecVal[s[i]] <= 255

Octets(s) == <<DecVal[s[1]], DecVal[s[3]], DecVal[s[5]], DecVal[s[7]]>>

PrefixOk(s) == Len(s) = 1 /\ s[1] \in Numerals /\ DecVal[s[1]] <= AddrWidth

\* netaddr.IPNetwork(line) does not raise
IPNetworkValid(s) ==
    /\ DottedQuad(BeforeSlash(s))
    /\ contains(s, "/") => PrefixOk(AfterSlash(s))

\* netaddr.IPNetwork(line): the address as written, host bits kept
IPNetwork(s) ==
    [a |-> Octets(BeforeSlash(s)),
     p |-> IF contains(s, "/") THEN DecVal[AfterSlash(s)[1]] ELSE AddrWidth]

\* ipaddress.ip_network(line, strict=False) does not raise ValueError
ip_network_valid(s) ==
    /\ DottedQuad(BeforeSlash(s))
    /\ contains(s, "/") => PrefixOk(AfterSlash(s))

\* str(IPAddress)
AddrStr(a) ==
    join(<<".">>, <<<<ToString(a[1])>>, <<ToString(a[2])>>,
                    <<ToString(a[3])>>, <<ToString(a[4])>>>>)

\* str(IPNetwork): "a.b.c.d/p"
NetStr(n) == AddrStr(n.a) \o <<"/", ToString(n.p)>>

Min(x, y) == IF x < y THEN x ELSE y
Max(x, y) == IF x < y THEN y ELSE x

\* number of bits of octet i (1..4) that lie inside a prefix of length p
Keep(p, i) == Min(8, Max(0, p - 8 * (i - 1)))

\* octet o with all but its top k bits cleared
Trunc(o, k) == o - (o % (2 ^ (8 - k)))

\* IPNetwork.cidr: the network with its host bits zeroed
cidr(n) == [a |-> [i \in 1..4 |-> Trunc(n.a[i], Keep(n.p, i))], p |-> n.p]

\* IPNetwork.first, IPNetwork.last
first(n) == cidr(n).a
last(n) == [i \in 1..4 |-> first(n)[i] + (2 ^ (8 - Keep(n.p, i))) - 1]

AddrLT(x, y) ==
    \E i \in 1..4 : x[i] < y[i] /\ \A j \in 1..(i - 1) : x[j] = y[j]
AddrLE(x, y) == x = y \/ AddrLT(x, y)

\* IPNetwork.__lt__: by (first, last)
NetLT(m, n) ==
    \/ AddrLT(first(m), first(n))
    \/ first(m) = first(n) /\ AddrLT(last(m), last(n))

\* IPNetwork.__contains__: sub in sup
NetIn(sub, sup) == AddrLE(first(sup), first(sub)) /\ AddrLE(last(sub), last(sup))

\* index and weight of the last network bit of a prefix of length p >= 1
BitOctet(p) == ((p - 1) \div 8) + 1
BitWeight(p) == 2 ^ (7 - ((p - 1) % 8))

\* (value >> shift_width) & 1
the_bit(n) == (n.a[BitOctet(n.p)] \div BitWeight(n.p)) % 2

\* IPNetwork.previous(), IPNetwork.next(): the adjacent network of the same size
previous(n) ==
    [a |-> [n.a EXCEPT ![BitOctet(n.p)] = @ - BitWeight(n.p)], p |-> n.p]
next(n) ==
    [a |-> [n.a EXCEPT ![BitOctet(n.p)] = @ + BitWeight(n.p)], p |-> n.p]

\* the network one bit shorter that holds n
parent(n) == cidr([a |-> n.a, p |-> n.p - 1])

\* sorted(cidrs)
RECURSIVE sorted(_)
sorted(S) ==
    IF S = {} THEN <<>>
    ELSE LET m == CHOOSE x \in S : \A y \in S \ {x} : NetLT(x, y)
         IN <<m>> \o sorted(S \ {m})

ToSet(s) == {s[i] : i \in 1..Len(s)}

\* ---------------------------------------------------------------- IPSet

\* a faulty merge_up: the sibling is merged once, the result is not looked at again
merge_up_once(cidrs, n) ==
    IF n.p = 0 THEN cidrs
    ELSE LET candidate == IF the_bit(n) = 1 THEN previous(n) ELSE next(n)
         IN IF candidate \notin cidrs THEN cidrs
            ELSE (cidrs \ {candidate, n}) \cup {parent(n)}

\* the tail of IPSet._compact_single_network: merge n with its sibling, and
\* the merged network with its own, while the sibling is stored
RECURSIVE merge_up(_, _)
merge_up(cidrs, n) ==
    IF n.p = 0 THEN cidrs
    ELSE LET candidate == IF the_bit(n) = 1 THEN previous(n) ELSE next(n)
         IN IF candidate \notin cidrs THEN cidrs
            ELSE merge_up((cidrs \ {candidate, n}) \cup {parent(n)}, parent(n))

\* IPSet._compact_single_network(added_network), added_network already stored
compact_single_network(cidrs, n) ==
    IF n.p = AddrWidth
    THEN IF \E q \in 0..(AddrWidth - 1) : cidr([a |-> n.a, p |-> q]) \in cidrs
         THEN cidrs \ {n}
         ELSE merge_up(cidrs, n)
    ELSE LET others == cidrs \ {n}
             subnets == {c \in others : NetIn(c, n)}
         IN IF \E c \in others : c \notin subnets /\ NetIn(n, c)
            THEN cidrs \ {n}
            ELSE merge_up(cidrs \ subnets, n)

\* a faulty add: the network is stored with its host bits
add_unmasked(cidrs, n) == compact_single_network(cidrs \cup {n}, n)

\* IPSet.add(IPNetwork): the network is normalised, stored and compacted
add(cidrs, n) == compact_single_network(cidrs \cup {cidr(n)}, cidr(n))

\* netaddr.cidr_partition's loop: the halves of target that do not hold
\* exclude, those before it (left) and those after it (right)
RECURSIVE partition_walk(_, _, _, _, _)
partition_walk(i_lower, new_prefixlen, exclude, left, right) ==
    IF new_prefixlen > exclude.p THEN left \o Reverse(right)
    ELSE LET lower == [a |-> i_lower, p |-> new_prefixlen]
             upper == next(lower)
         IN IF AddrLE(upper.a, first(exclude))
            THEN partition_walk(upper.a, new_prefixlen + 1, exclude,
                                Append(left, lower), right)
            ELSE partition_walk(lower.a, new_prefixlen + 1, exclude,
                                left, Append(right, upper))

\* a faulty cidr_exclude: the cut stops one level short of the excluded block
cidr_exclude_short(target, exclude) ==
    IF AddrLT(last(exclude), first(target)) \/ AddrLT(last(target), first(exclude))
    THEN <<cidr(target)>>
    ELSE IF target.p >= exclude.p THEN <<>>
    ELSE partition_walk(first(target), target.p + 1, parent(exclude), <<>>, <<>>)

\* netaddr.cidr_exclude(target, exclude): target without exclude, in order
cidr_exclude(target, exclude) ==
    IF AddrLT(last(exclude), first(target)) \/ AddrLT(last(target), first(exclude))
    THEN <<cidr(target)>>
    ELSE IF target.p >= exclude.p THEN <<>>
    ELSE partition_walk(first(target), target.p + 1, exclude, <<>>, <<>>)

\* the loop of IPSet.difference over the two sorted lists
RECURSIVE difference_walk(_, _, _)
difference_walk(own_nets, other_nets, result) ==
    IF own_nets = <<>> THEN result
    ELSE IF other_nets = <<>> THEN result \cup ToSet(own_nets)
    ELSE LET own_cur == Head(own_nets)
             other_cur == Head(other_nets)
         IN IF own_cur = other_cur
            THEN difference_walk(Tail(own_nets), Tail(other_nets), result)
            ELSE IF NetIn(own_cur, other_cur)
            THEN difference_walk(Tail(own_nets), other_nets, result)
            ELSE IF NetIn(other_cur, own_cur)
            THEN difference_walk(cidr_exclude(own_cur, other_cur) \o Tail(own_nets),
                                 Tail(other_nets), result)
            ELSE IF NetLT(own_cur, other_cur)
            THEN difference_walk(Tail(own_nets), other_nets, result \cup {own_cur})
            ELSE difference_walk(own_nets, Tail(other_nets), result)

\* a faulty difference: only the networks stored in both sets are removed
difference_exact(own, other) == own \ other

\* IPSet.__sub__ (merged_set - exclude_set)
difference(own, other) == difference_walk(sorted(own), sorted(other), {})

\* a faulty iter_cidrs: the networks come out in descending order
iter_cidrs_descending(cidrs) == Reverse(sorted(cidrs))

\* IPSet.iter_cidrs(): the stored networks in ascending order
iter_cidrs(cidrs) == sorted(cidrs)

\* -------------------------------------------------------- calculate_mask

\* a faulty pass of calculate_mask's loop: the bits are set from the low end
MaskStep_low(mask, i) == [mask EXCEPT ![(i \div 8) + 1] = @ + 2 ^ (i % 8)]

\* one pass of the loop body: mask[i // 8] += 1 << (7 - i % 8)
MaskStep(mask, i) == [mask EXCEPT ![(i \div 8) + 1] = @ + 2 ^ (7 - (i % 8))]

\* for i in range(cidr), from pass i on
RECURSIVE MaskLoop(_, _, _)
MaskLoop(mask, i, c) ==
    IF i >= c THEN mask ELSE MaskLoop(MaskStep(mask, i), i + 1, c)

calculate_mask(c) == MaskLoop(<<0, 0, 0, 0>>, 0, c)

\* ------------------------------------------------------------- inputs

MaxFiles == 2
MaxLines == 3
MaxExcl == 2
MaxListLines == 2

Q(a, b, c, d) == <<ToString(a), ".", ToString(b), ".", ToString(c), ".", ToString(d)>>
NL == <<"\n">>

\* lines a downloaded blocklist may hold
ValidSourceLines ==
    { Q(10, 0, 0, 0) \o <<"/", "26">> \o NL,
      Q(10, 0, 0, 64) \o <<"/", "26">> \o NL,
      <<" ", " ">> \o Q(10, 0, 0, 128) \o <<"/", "25", " ">> \o NL,
      Q(10, 0, 0, 77) \o <<"/", "24">> \o NL,
      Q(10, 0, 0, 65) \o NL }
OtherSourceLines ==
    { <<"#", " ", "note">> \o NL,
      <<" ">> \o NL,
      Q(10, 0, 0, 1) \o <<" ", "#", " ", "note">> \o NL,
      <<"x">> \o NL }
SourceLines == ValidSourceLines \cup OtherSourceLines

\* lines of the exclusion list
ExclusionLines ==
    { Q(10, 0, 0, 128) \o <<"/", "25">> \o NL,
      Q(10, 0, 0, 64) \o <<"/", "27">> \o NL,
      Q(10, 0, 0, 65) \o NL,
      Q(0, 0, 0, 0) \o <<"/", "0">> \o NL,
      Q(10, 0, 0, 0) \o <<"/", "33">> \o NL }

\* lines of an INPUT_IP_LIST that was not written by the merge
ListLines ==
    { Q(10, 0, 0, 0) \o <<"/", "24">> \o NL,
      Q(10, 0, 0, 65) \o NL,
      Q(10, 0, 0, 1) \o <<" ", "#", " ", "note">> \o NL,
      <<"x">> \o NL }

SeqsUpTo(S, n) == UNION {[1..k -> S] : k \in 0..n}

\* the sources of the [blocklists] section, and the chunks each serves
MaxUrls == 2
MaxChunks == 2
Urls == 1..MaxUrls
FileNames == {"list.txt", "drop.txt"}
Body(u) == [k \in 1..MaxChunks |-> Q(10, u, k, 0) \o <<"/", "24">> \o NL]

\* ./raw_lists with no file in it
NoFiles == [n \in {} |-> <<>>]
\* a file left by an earlier run
StaleFiles == [n \in {"list.txt"} |-> <<Q(192, 168, 0, 0) \o <<"/", "24">> \o NL>>]

\* what the [exclude_networks] section may hold
ExclusionLists ==
    { <<>>,
      <<Q(10, 1, 1, 0) \o <<"/", "24">>>>,
      <<Q(0, 0, 0, 0) \o <<"/", "0">>>> }

\* what a list file other than the merge's may hold
OtherLists == { <<>>, <<Q(10, 0, 0, 65) \o NL>> }

first_command == "ip route"
second_command == "Null0 tag 66"

\* -------------------------------------------------------------- state

VARIABLES
    variant,      \* "pusher": rtbh_pusher.py; "script": the scripts/ programs
    pc,           \* position in the run
    nfiles,       \* number of files glob.glob(input_glob) returned
    fileIdx,      \* the file being read
    nread,        \* source lines read so far by the loop over the files
    nexcl,        \* exclusion lines read so far by the loop over the exclusions
    merged_set,   \* IPSet of the sources
    success,      \* merge_ip_ranges' flag
    exclude_set,  \* IPSet of the exclusions
    final_set,    \* merged_set - exclude_set
    merge_ret,    \* how the merge ended
    ip_list,      \* the list file: its lines
    list_src,     \* who wrote the list file: "none", "merge", "user"
    diag,         \* the per-line messages printed
    srcSeen,      \* history: the source lines read
    exclSeen,     \* history: the exclusion lines read
    gen_idx,      \* the list line the generator is at
    commands,     \* generate_cisco_commands' list
    doc,          \* OUTPUT_COMMANDS_FILE: its text
    doc_written,  \* whether OUTPUT_COMMANDS_FILE was written
    gen_ret,      \* how the generator ended
    m_cidr, m_i, m_mask,  \* calculate_mask's argument, loop index and list
    stage,        \* main(): the stage it is at, or how the process ended
    no_upload,    \* args.no_upload
    urls,         \* the sources read_list_config('blocklists') returned
    fname,        \* per source: the file name download_file derives
    task,         \* per source: the state of its download_file task
    off,          \* per source: chunks its task has written to its file object
    raw_lists,    \* the files under ./raw_lists: name -> chunks
    calls,        \* history: the stages main() has called, in order
    upload_res,   \* how upload_file ended
    apply_res,    \* how apply_config ended
    c_target, c_exclude, c_frags, c_done   \* cidr_exclude's arguments and result

mergeVars == <<nfiles, fileIdx, nread, nexcl, merged_set, success, exclude_set,
               final_set, merge_ret, srcSeen, exclSeen>>
genVars == <<gen_idx, commands, doc, doc_written, gen_ret>>
maskVars == <<m_cidr, m_i, m_mask>>
mainVars == <<stage, no_upload, urls, fname, task, off, raw_lists, calls,
              upload_res, apply_res>>
cutVars == <<c_target, c_exclude, c_frags, c_done>>
vars == <<variant, pc, ip_list, list_src, diag, mergeVars, genVars, maskVars,
          mainVars, cutVars>>

RunInit ==
    /\ pc = "start"
    /\ nfiles = 0 /\ fileIdx = 0 /\ nread = 0 /\ nexcl = 0
    /\ merged_set = {} /\ success = FALSE
    /\ exclude_set = {} /\ final_set = {}
    /\ merge_ret = "none"
    /\ ip_list = <<>> /\ list_src = "none"
    /\ diag = {}
    /\ srcSeen = {} /\ exclSeen = {}
    /\ gen_idx = 0 /\ commands = <<>>
    /\ doc = <<>> /\ doc_written = FALSE
    /\ gen_ret = "none"

MaskIdle == m_cidr = 0 /\ m_i = 0 /\ m_mask = <<0, 0, 0, 0>>

\* main() is not running
MainIdle ==
    /\ stage = "idle" /\ no_upload = FALSE
    /\ urls = {}
    /\ fname = [u \in Urls |-> "list.txt"]
    /\ task = [u \in Urls |-> "pending"]
    /\ off = [u \in Urls |-> 0]
    /\ raw_lists = NoFiles
    /\ calls = <<>>
    /\ upload_res = "none" /\ apply_res = "none"

CutIdle ==
    /\ c_target = [a |-> <<0, 0, 0, 0>>, p |-> 0]
    /\ c_exclude = [a |-> <<0, 0, 0, 0>>, p |-> 0]
    /\ c_frags = <<>>
    /\ c_done = FALSE

Init == variant \in {"pusher", "script"} /\ RunInit /\ MaskIdle /\ MainIdle /\ CutIdle

\* ------------------------------------------------------ merge_ip_ranges

\* files = glob.glob(input_glob), and the test for no files
Glob(n) ==
    /\ pc = "start"
    /\ nfiles' = n
    /\ IF n = 0
       THEN /\ fileIdx' = 0
            /\ IF variant = "pusher"
               THEN merge_ret' = "no_files" /\ pc' = "done"
               ELSE merge_ret' = merge_ret /\ pc' = "excl"
       ELSE fileIdx' = 1 /\ merge_ret' = merge_ret /\ pc' = "read"
    /\ UNCHANGED <<variant, ip_list, list_src, diag, nread, nexcl, merged_set,
                   success, exclude_set, final_set, srcSeen, exclSeen, genVars,
                   maskVars, mainVars,
                   cutVars>>

\* a faulty try block: a line that does not parse empties the set
TryAdd_clear(cidrs, line) ==
    IF IPNetworkValid(line) THEN add(cidrs, IPNetwork(line)) ELSE {}

\* try: network = IPNetwork(line); set.add(network)  except Exception: (skip)
TryAdd(cidrs, line) ==
    IF IPNetworkValid(line) THEN add(cidrs, IPNetwork(line)) ELSE cidrs

\* one pass of "for line in f" over a source file
MergeLine(raw) ==
    /\ pc = "read"
    /\ nread < MaxLines
    /\ nread' = nread + 1
    /\ srcSeen' = srcSeen \cup {raw}
    /\ LET line == strip(raw)
       IN IF line # <<>> /\ ~startswith(line, "#")
          THEN /\ merged_set' = TryAdd(merged_set, line)
               /\ IF IPNetworkValid(line)
                  THEN /\ success' = (variant = "pusher" \/ success)
                       /\ diag' = diag
                  ELSE /\ diag' = diag \cup
                             {[msg |-> "Skipping invalid network", line |-> line]}
                       /\ success' = success
          ELSE UNCHANGED <<merged_set, success, diag>>
    /\ UNCHANGED <<variant, pc, nfiles, fileIdx, nexcl, exclude_set, final_set,
                   merge_ret, exclSeen, ip_list, list_src, genVars, maskVars, mainVars,
                   cutVars>>

\* the end of a source file: the next file, or the end of the outer loop
EndOfFile ==
    /\ pc = "read"
    /\ IF fileIdx < nfiles
       THEN fileIdx' = fileIdx + 1 /\ nread' = nread /\ pc' = pc
       ELSE /\ fileIdx' = 0
            /\ nread' = 0
            /\ pc' = IF variant = "pusher" THEN "gate" ELSE "excl"
    /\ UNCHANGED <<variant, nfiles, nexcl, merged_set, success, exclude_set,
                   final_set, merge_ret, srcSeen, exclSeen, ip_list, list_src,
                   diag, genVars, maskVars, mainVars,
                   cutVars>>

\* a faulty gate: the flag is not looked at
CheckSuccess_skip ==
    /\ pc = "gate"
    /\ pc' = "excl"
    /\ UNCHANGED <<variant, ip_list, list_src, diag, mergeVars, genVars, maskVars, mainVars,
                   cutVars>>

\* if not success: "Error: No valid networks found in input files"
CheckSuccess ==
    /\ pc = "gate"
    /\ IF ~success
       THEN merge_ret' = "no_valid_networks" /\ pc' = "done"
       ELSE merge_ret' = merge_ret /\ pc' = "excl"
    /\ UNCHANGED <<variant, nfiles, fileIdx, nread, nexcl, merged_set, success,
                   exclude_set, final_set, srcSeen, exclSeen, ip_list, list_src,
                   diag, genVars, maskVars, mainVars,
                   cutVars>>

\* one line of the exclusion list: read_list_config's filter and the loop body
ExclLine(raw) ==
    /\ pc = "excl"
    /\ nexcl < MaxExcl
    /\ nexcl' = nexcl + 1
    /\ exclSeen' = exclSeen \cup {raw}
    /\ LET line == strip(raw)
       IN IF line # <<>> /\ ~startswith(line, "#")
          THEN /\ exclude_set' = TryAdd(exclude_set, line)
               /\ diag' = IF IPNetworkValid(line) THEN diag
                          ELSE diag \cup
                             {[msg |-> "Skipping invalid exclusion", line |-> line]}
          ELSE UNCHANGED <<exclude_set, diag>>
    /\ UNCHANGED <<variant, pc, nfiles, fileIdx, nread, merged_set, success,
                   final_set, merge_ret, srcSeen, ip_list, list_src, genVars,
                   maskVars, mainVars,
                   cutVars>>

\* the text written to the list file: one "network\n" per block
ListText(nets) == [i \in 1..Len(nets) |-> NetStr(nets[i]) \o NL]

\* a faulty end of the merge: the list is saved without the test for an empty result
ApplyExclusions_nocheck ==
    /\ pc = "excl"
    /\ final_set' = difference(merged_set, exclude_set)
    /\ ip_list' = ListText(iter_cidrs(final_set'))
    /\ list_src' = "merge"
    /\ merge_ret' = "ok"
    /\ pc' = "gen"
    /\ nexcl' = 0
    /\ UNCHANGED <<variant, nfiles, fileIdx, nread, merged_set, success,
                   exclude_set, srcSeen, exclSeen, diag, genVars, maskVars, mainVars,
                   cutVars>>

\* final_set = merged_set - exclude_set, the test for an empty result, the save
ApplyExclusions ==
    /\ pc = "excl"
    /\ final_set' = difference(merged_set, exclude_set)
    /\ IF variant = "pusher" /\ final_set' = {}
       THEN /\ merge_ret' = "empty_after_exclusion"
            /\ pc' = "done"
            /\ UNCHANGED <<ip_list, list_src>>
       ELSE /\ ip_list' = ListText(iter_cidrs(final_set'))
            /\ list_src' = "merge"
            /\ merge_ret' = "ok"
            /\ pc' = "gen"
    /\ nexcl' = 0
    /\ UNCHANGED <<variant, nfiles, fileIdx, nread, merged_set, success,
                   exclude_set, srcSeen, exclSeen, diag, genVars, maskVars, mainVars,
                   cutVars>>

\* ---------------------------------------------- generate_cisco_commands

\* INPUT_IP_LIST names a list the merge did not write
UserList(lines) ==
    /\ pc = "start"
    /\ ip_list' = lines
    /\ list_src' = "user"
    /\ pc' = "gen"
    /\ UNCHANGED <<variant, diag, mergeVars, genVars, maskVars, mainVars,
                   cutVars>>

\* the test for an empty list file, and the two open() calls
GenOpen ==
    /\ pc = "gen"
    /\ IF ip_list = <<>>
       THEN /\ gen_ret' = "empty_list"
            /\ pc' = "done"
            /\ UNCHANGED <<gen_idx, doc, doc_written>>
       ELSE /\ gen_idx' = 1
            /\ doc' = <<>>
            /\ doc_written' = TRUE
            /\ gen_ret' = gen_ret
            /\ pc' = "gen_read"
    /\ UNCHANGED <<variant, ip_list, list_src, diag, mergeVars, commands, maskVars, mainVars,
                   cutVars>>

\* int(cidrString) does not raise ValueError
IsInt(s) == Len(s) = 1 /\ s[1] \in Numerals

\* the command line of one list line
CommandLine(addrString, mask) ==
    <<first_command, " ">> \o addrString \o <<" ">>
        \o join(<<".">>, [i \in 1..4 |-> <<ToString(mask[i])>>])
        \o <<" ", second_command>>

\* one pass of "for line in f" over the list file
GenLine ==
    /\ pc = "gen_read"
    /\ gen_idx <= Len(ip_list)
    /\ gen_idx' = gen_idx + 1
    /\ LET raw == ip_list[gen_idx]
           line == strip(raw)
       IN IF contains(raw, "#")
          THEN UNCHANGED <<commands, diag>>
          ELSE IF ~ip_network_valid(line)
          THEN /\ diag' = diag \cup
                     {[msg |-> "Skipping invalid IP/CIDR", line |-> line]}
               /\ commands' = commands
          ELSE IF ~contains(line, "/")
          THEN UNCHANGED <<commands, diag>>
          ELSE IF ~IsInt(AfterSlash(line))
          THEN /\ diag' = diag \cup {[msg |-> "Invalid CIDR", line |-> AfterSlash(line)]}
               /\ commands' = commands
          ELSE /\ commands' = Append(commands,
                     CommandLine(BeforeSlash(line),
                                 calculate_mask(DecVal[AfterSlash(line)[1]])))
               /\ diag' = diag
    /\ UNCHANGED <<variant, pc, ip_list, list_src, mergeVars, doc, doc_written,
                   gen_ret, maskVars, mainVars,
                   cutVars>>

\* a faulty OutputContent: "end" is always written on a line of its own
OutputContent_newline(cmds) == join(NL, cmds) \o <<"\n", "end">>

\* '\n'.join(commands) and the final "end"
OutputContent(cmds) ==
    join(NL, cmds) \o (IF cmds # <<>> THEN <<"\n", "end">> ELSE <<"end">>)

\* fw.write(output_content) in rtbh_pusher.py,
\* fw.write(output_content.strip()) in scripts/cisco_commands.py
GenWrite ==
    /\ pc = "gen_read"
    /\ gen_idx > Len(ip_list)
    /\ IF variant = "pusher"
       THEN doc' = OutputContent(commands) /\ gen_ret' = gen_ret /\ pc' = "gen_post"
       ELSE doc' = strip(OutputContent(commands)) /\ gen_ret' = "ok" /\ pc' = "done"
    /\ UNCHANGED <<variant, ip_list, list_src, diag, mergeVars, gen_idx, commands,
                   doc_written, maskVars, mainVars,
                   cutVars>>

\* rtbh_pusher.py's post-processing of the commands file
PostProcess ==
    /\ pc = "gen_post"
    /\ doc' = <<"no ip route *", "\n">> \o doc
    /\ gen_ret' = "ok"
    /\ pc' = "done"
    /\ UNCHANGED <<variant, ip_list, list_src, diag, mergeVars, gen_idx,
                   commands, doc_written, maskVars, mainVars,
                   cutVars>>

\* ---------------------------------------------------------- the program

Next ==
    \/ \E n \in 0..MaxFiles : Glob(n)
    \/ \E raw \in SourceLines : MergeLine(raw)
    \/ EndOfFile
    \/ CheckSuccess
    \/ \E raw \in ExclusionLines : ExclLine(raw)
    \/ ApplyExclusions
    \/ \E lines \in SeqsUpTo(ListLines, MaxListLines) : UserList(lines)
    \/ GenOpen
    \/ GenLine
    \/ GenWrite
    \/ PostProcess

Spec == Init /\ [][Next]_vars

\* ------------------------------------- calculate_mask, one pass at a time

MaskInit ==
    /\ variant = "pusher"
    /\ RunInit
    /\ m_cidr \in 0..AddrWidth
    /\ m_i = 0
    /\ m_mask = <<0, 0, 0, 0>>
    /\ MainIdle /\ CutIdle

MaskPass ==
    /\ m_i < m_cidr
    /\ m_mask' = MaskStep(m_mask, m_i)
    /\ m_i' = m_i + 1
    /\ UNCHANGED <<variant, pc, ip_list, list_src, diag, mergeVars, genVars,
                   m_cidr, mainVars, cutVars>>

MaskNext == MaskPass

SpecMask == MaskInit /\ [][MaskNext]_vars

\* ------------------------------------------------ main() of rtbh_pusher.py

MainInit ==
    /\ variant = "pusher"
    /\ RunInit /\ MaskIdle /\ CutIdle
    /\ stage = "start"
    /\ no_upload \in BOOLEAN
    /\ urls \in {1..n : n \in 0..MaxUrls}
    /\ fname \in [Urls -> FileNames]
    /\ task = [u \in Urls |-> "pending"]
    /\ off = [u \in Urls |-> 0]
    /\ raw_lists \in {NoFiles, StaleFiles}
    /\ calls = <<>>
    /\ upload_res = "none" /\ apply_res = "none"

\* clean_old_lists(), then download_ip_lists() up to the creation of the tasks
StartDownload ==
    /\ stage = "start"
    /\ raw_lists' = NoFiles
    /\ calls' = Append(calls, "download")
    /\ stage' = IF urls = {} THEN "exit1" ELSE "download"
    /\ UNCHANGED <<variant, pc, ip_list, list_src, diag, mergeVars, genVars,
                   maskVars, cutVars, no_upload, urls, fname, task, off,
                   upload_res, apply_res>>

\* download_file up to its first read: the response arrives, the file is opened
Respond(u, st) ==
    /\ stage = "download"
    /\ u \in urls
    /\ task[u] = "pending"
    /\ IF st = "200"
       THEN /\ task' = [task EXCEPT ![u] = "reading"]
            /\ raw_lists' = [n \in DOMAIN raw_lists \cup {fname[u]} |->
                                IF n = fname[u] THEN <<>> ELSE raw_lists[n]]
       ELSE /\ task' = [task EXCEPT ![u] = "failed"]
            /\ raw_lists' = raw_lists
    /\ UNCHANGED <<variant, pc, ip_list, list_src, diag, mergeVars, genVars,
                   maskVars, cutVars, stage, no_upload, urls, fname, off, calls,
                   upload_res, apply_res>>

\* the bytes a write leaves unwritten before its own position
Hole == <<"NUL">>

\* f.write(chunk) at the file object's own position k
WriteAt(chunks, k, c) ==
    IF k <= Len(chunks) THEN [chunks EXCEPT ![k] = c]
    ELSE chunks \o [i \in 1..(k - 1 - Len(chunks)) |-> Hole] \o <<c>>

\* chunk = await response.content.read(CHUNK_SIZE); f.write(chunk)
WriteChunk(u) ==
    /\ stage = "download"
    /\ u \in urls
    /\ task[u] = "reading"
    /\ off[u] < Len(Body(u))
    /\ raw_lists' = [raw_lists EXCEPT ![fname[u]] =
                         WriteAt(@, off[u] + 1, Body(u)[off[u] + 1])]
    /\ off' = [off EXCEPT ![u] = @ + 1]
    /\ UNCHANGED <<variant, pc, ip_list, list_src, diag, mergeVars, genVars,
                   maskVars, cutVars, stage, no_upload, urls, fname, task, calls,
                   upload_res, apply_res>>

\* the read returns no chunk: return output_path, True
Finish(u) ==
    /\ stage = "download"
    /\ u \in urls
    /\ task[u] = "reading"
    /\ off[u] = Len(Body(u))
    /\ task' = [task EXCEPT ![u] = "ok"]
    /\ UNCHANGED <<variant, pc, ip_list, list_src, diag, mergeVars, genVars,
                   maskVars, cutVars, stage, no_upload, urls, fname, off,
                   raw_lists, calls, upload_res, apply_res>>

\* the read raises (a timeout, a broken connection): return "", False
Abort(u) ==
    /\ stage = "download"
    /\ u \in urls
    /\ task[u] = "reading"
    /\ task' = [task EXCEPT ![u] = "failed"]
    /\ UNCHANGED <<variant, pc, ip_list, list_src, diag, mergeVars, genVars,
                   maskVars, cutVars, stage, no_upload, urls, fname, off,
                   raw_lists, calls, upload_res, apply_res>>

\* asyncio.gather has every result; successful_downloads; main's check_step
Gather ==
    /\ stage = "download"
    /\ \A u \in urls : task[u] \in {"ok", "failed"}
    /\ IF \E u \in urls : task[u] = "ok"
       THEN stage' = "merge" /\ calls' = Append(calls, "merge")
       ELSE stage' = "exit1" /\ calls' = calls
    /\ UNCHANGED <<variant, pc, ip_list, list_src, diag, mergeVars, genVars,
                   maskVars, cutVars, no_upload, urls, fname, task, off,
                   raw_lists, upload_res, apply_res>>

RECURSIVE Flat(_)
Flat(chunks) == IF chunks = <<>> THEN <<>> ELSE Head(chunks) \o Flat(Tail(chunks))

\* the lines of the files glob.glob("./raw_lists/*") names, file after file
RECURSIVE AllLines(_)
AllLines(names) ==
    IF names = {} THEN <<>>
    ELSE LET n == CHOOSE x \in names : TRUE
         IN SplitLines(Flat(raw_lists[n]), <<>>) \o AllLines(names \ {n})

\* the lines the loops hand to IPNetwork
Tried(lines) ==
    {l \in {strip(lines[i]) : i \in 1..Len(lines)} : l # <<>> /\ ~startswith(l, "#")}

\* the loop over the lines, from an IPSet on
RECURSIVE ReadLines(_, _)
ReadLines(cidrs, lines) ==
    IF lines = <<>> THEN cidrs
    ELSE LET line == strip(Head(lines))
         IN ReadLines(IF line # <<>> /\ ~startswith(line, "#")
                      THEN TryAdd(cidrs, line) ELSE cidrs,
                      Tail(lines))

Skipped(msg, lines) == {[msg |-> msg, line |-> l] : l \in {t \in Tried(lines) : ~IPNetworkValid(t)}}

\* merge_ip_ranges("./raw_lists/*", "ip_list.txt") and main's check_step
MainMerge(excl) ==
    /\ stage = "merge"
    /\ LET files == DOMAIN raw_lists
           lines == AllLines(files)
           m == ReadLines({}, lines)
           ok == \E l \in Tried(lines) : IPNetworkValid(l)
           ex == ReadLines({}, excl)
           f == difference(m, ex)
           ret == IF files = {} THEN "no_files"
                  ELSE IF ~ok THEN "no_valid_networks"
                  ELSE IF f = {} THEN "empty_after_exclusion"
                  ELSE "ok"
           cut == ret \in {"empty_after_exclusion", "ok"}
       IN /\ nfiles' = Cardinality(files)
          /\ srcSeen' = {lines[i] : i \in 1..Len(lines)}
          /\ exclSeen' = IF cut THEN {excl[i] : i \in 1..Len(excl)} ELSE {}
          /\ merged_set' = m
          /\ success' = ok
          /\ exclude_set' = IF cut THEN ex ELSE {}
          /\ final_set' = IF cut THEN f ELSE {}
          /\ merge_ret' = ret
          /\ diag' = diag \cup Skipped("Skipping invalid network", lines)
                          \cup (IF cut THEN Skipped("Skipping invalid exclusion", excl)
                                ELSE {})
          /\ IF ret = "ok"
             THEN /\ ip_list' = ListText(iter_cidrs(f))
                  /\ list_src' = "merge"
                  /\ pc' = "gen"
                  /\ stage' = "generate"
                  /\ calls' = Append(calls, "generate")
             ELSE /\ stage' = "exit1"
                  /\ UNCHANGED <<ip_list, list_src, pc, calls>>
    /\ UNCHANGED <<variant, fileIdx, nread, nexcl, genVars, maskVars, cutVars,
                   no_upload, urls, fname, task, off, raw_lists, upload_res,
                   apply_res>>

\* config['INPUT_IP_LIST'] names a file other than the merge's ip_list.txt
OtherList(lines) ==
    /\ stage = "generate"
    /\ pc = "gen"
    /\ list_src = "merge"
    /\ ip_list' = lines
    /\ list_src' = "user"
    /\ UNCHANGED <<variant, pc, diag, mergeVars, genVars, maskVars, mainVars,
                   cutVars>>

\* generate_cisco_commands has returned: check_step, and "if not args.no_upload"
AfterGenerate ==
    /\ stage = "generate"
    /\ pc = "done"
    /\ IF gen_ret # "ok" THEN stage' = "exit1" /\ calls' = calls
       ELSE IF no_upload THEN stage' = "exit0" /\ calls' = calls
       ELSE stage' = "upload" /\ calls' = Append(calls, "upload")
    /\ UNCHANGED <<variant, pc, ip_list, list_src, diag, mergeVars, genVars,
                   maskVars, cutVars, no_upload, urls, fname, task, off,
                   raw_lists, upload_res, apply_res>>

\* how upload_file may end: it returns, a required key is missing
\* (sys.exit(1)), or the connection or the copy raises
UploadResults == {"ok", "missing_key", "raised"}

\* upload_file(config) inside main's try
Upload(res) ==
    /\ stage = "upload"
    /\ upload_res' = res
    /\ IF res = "ok"
       THEN stage' = "apply" /\ calls' = Append(calls, "apply")
       ELSE stage' = "exit1" /\ calls' = calls
    /\ UNCHANGED <<variant, pc, ip_list, list_src, diag, mergeVars, genVars,
                   maskVars, cutVars, no_upload, urls, fname, task, off,
                   raw_lists, apply_res>>

\* how apply_config may end: the copy is accepted, the router's answer holds
\* "%Error" or "Invalid" (the response is marked failed and returned), a
\* ScrapliException is raised, or another exception is raised
ApplyResults == {"ok", "failed_response", "ScrapliException", "Exception"}

\* apply_config(config) inside main's try, and the end of main
Apply(res) ==
    /\ stage = "apply"
    /\ apply_res' = res
    /\ stage' = IF res \in {"ok", "failed_response"} THEN "exit0" ELSE "exit1"
    /\ UNCHANGED <<variant, pc, ip_list, list_src, diag, mergeVars, genVars,
                   maskVars, cutVars, no_upload, urls, fname, task, off,
                   raw_lists, calls, upload_res>>

MainNext ==
    \/ StartDownload
    \/ \E u \in Urls, st \in {"200", "404", "error"} : Respond(u, st)
    \/ \E u \in Urls : WriteChunk(u)
    \/ \E u \in Urls : Finish(u)
    \/ \E u \in Urls : Abort(u)
    \/ Gather
    \/ \E excl \in ExclusionLists : MainMerge(excl)
    \/ \E lines \in OtherLists : OtherList(lines)
    \/ GenOpen
    \/ GenLine
    \/ GenWrite
    \/ PostProcess
    \/ AfterGenerate
    \/ \E res \in UploadResults : Upload(res)
    \/ \E res \in ApplyResults : Apply(res)

SpecMain == MainInit /\ [][MainNext]_vars

\* ----------------------------------------------- one cut of cidr_exclude

CutAddrs == { <<10, 0, 0, 65>>, <<10, 0, 0, 128>>, <<255, 255, 255, 255>> }

\* a stored block and an excluded block inside it
CutInit ==
    /\ variant = "pusher"
    /\ RunInit /\ MaskIdle /\ MainIdle
    /\ \E x \in CutAddrs, y \in CutAddrs, p \in 0..AddrWidth, q \in 0..AddrWidth :
           /\ p <= q
           /\ cidr([a |-> x, p |-> p]) = cidr([a |-> y, p |-> p])
           /\ c_target = cidr([a |-> x, p |-> p])
           /\ c_exclude = cidr([a |-> y, p |-> q])
    /\ c_frags = <<>>
    /\ c_done = FALSE

\* the cut IPSet.__sub__ makes when an excluded block lies in a stored one
Cut ==
    /\ ~c_done
    /\ c_frags' = cidr_exclude(c_target, c_exclude)
    /\ c_done' = TRUE
    /\ UNCHANGED <<variant, pc, ip_list, list_src, diag, mergeVars, genVars,
                   maskVars, mainVars, c_target, c_exclude>>

CutNext == Cut

SpecCut == CutInit /\ [][CutNext]_vars

\* ------------------------------------------ what the properties speak of

\* a line that is blank or holds a comment
IsSkipLine(raw) == strip(raw) = <<>> \/ contains(raw, "#")
\* a line that names a network
IsValidLine(raw) == ~IsSkipLine(raw) /\ IPNetworkValid(strip(raw))
\* a line that is neither
IsMalformedLine(raw) == ~IsSkipLine(raw) /\ ~IPNetworkValid(strip(raw))

NetsOf(lines) == {IPNetwork(strip(raw)) : raw \in {l \in lines : IsValidLine(l)}}

\* the networks of the valid source lines and exclusion lines read
SrcNets == NetsOf(srcSeen)
ExclNets == NetsOf(exclSeen)

\* the blocks the merge wrote to the list file, read back from its text
Emitted ==
    IF list_src = "merge"
    THEN [i \in 1..Len(ip_list) |-> IPNetwork(strip(ip_list[i]))]
    ELSE <<>>

\* merge_ip_ranges (or the merge script) has just ended
MergeOver ==
    \/ pc = "gen" /\ list_src = "merge"
    \/ pc = "done" /\ gen_ret = "none" /\ list_src # "user"

\* address x lies in network n: they agree on the first n.p bits
Covers(n, x) == \A i \in 1..4 : Trunc(x[i], Keep(n.p, i)) = Trunc(n.a[i], Keep(n.p, i))
Covered(S, x) == \E n \in S : Covers(n, x)

AddrSucc(x) ==
    IF x[4] < 255 THEN <<x[1], x[2], x[3], x[4] + 1>>
    ELSE IF x[3] < 255 THEN <<x[1], x[2], x[3] + 1, 0>>
    ELSE IF x[2] < 255 THEN <<x[1], x[2] + 1, 0, 0>>
    ELSE IF x[1] < 255 THEN <<x[1] + 1, 0, 0, 0>>
    ELSE x
AddrPred(x) ==
    IF x[4] > 0 THEN <<x[1], x[2], x[3], x[4] - 1>>
    ELSE IF x[3] > 0 THEN <<x[1], x[2], x[3] - 1, 255>>
    ELSE IF x[2] > 0 THEN <<x[1], x[2] - 1, 255, 255>>
    ELSE IF x[1] > 0 THEN <<x[1] - 1, 255, 255, 255>>
    ELSE x

LowAddr(n) == [i \in 1..4 |-> Trunc(n.a[i], Keep(n.p, i))]
HighAddr(n) == [i \in 1..4 |-> LowAddr(n)[i] + (2 ^ (8 - Keep(n.p, i))) - 1]

\* the addresses at and next to every edge of the networks of S: every
\* maximal run of addresses that S treats alike holds one of them
Probes(S) ==
    UNION {{LowAddr(n), HighAddr(n), AddrPred(LowAddr(n)), AddrSucc(HighAddr(n))}
           : n \in S}

\* C1: once the merge is over, the addresses covered by the blocks it wrote
\* are exactly those covered by a source network and by no exclusion
C1_ExactCover ==
    MergeOver =>
        LET out == ToSet(Emitted)
            src == SrcNets
            excl == ExclNets
        IN \A x \in Probes(src \cup excl \cup out) :
               Covered(out, x) <=> (Covered(src, x) /\ ~Covered(excl, x))

\* a block was cut by an exclusion inside it and several blocks were written
C1_Witness ==
    /\ merge_ret = "ok"
    /\ Cardinality(SrcNets) >= 2
    /\ \E e \in ExclNets : \E n \in merged_set : Covers(n, e.a) /\ n.p < e.p
    /\ Len(Emitted) >= 3

\* two networks share an address
Overlap(m, n) == Covers(m, LowAddr(n)) \/ Covers(n, LowAddr(m))
\* two networks of one length are the two halves of the network one bit shorter
Siblings(m, n) ==
    m # n /\ m.p = n.p /\ m.p >= 1 /\ Covers([a |-> m.a, p |-> m.p - 1], n.a)
MinimalCover(S) ==
    \A m \in S :
        /\ m.a = LowAddr(m)
        /\ \A n \in S \ {m} : ~Overlap(m, n) /\ ~Siblings(m, n)

\* C3: the set built by add, and the set left by the subtraction, hold no two
\* overlapping blocks, no block with host bits set, and no two sibling blocks
C3_Minimal ==
    MinimalCover(merged_set) /\ MinimalCover(exclude_set) /\ MinimalCover(final_set)

\* 10.0.0.0/24 was built from shorter networks by merging upward, then cut
C3_Witness ==
    /\ merge_ret = "ok"
    /\ [a |-> <<10, 0, 0, 0>>, p |-> 24] \in merged_set
    /\ \A n \in SrcNets : n.p > 24
    /\ ExclNets # {}
    /\ Cardinality(final_set) >= 2

\* bit j (0 the highest) of octet o
Bit(o, j) == (o \div (2 ^ (7 - j))) % 2

\* C2: calculate_mask(p), for p in 0..32, sets in octet i exactly the top
\* min(8, max(0, p - 8i)) bits, and no octet ever leaves 0..255
C2_MaskTable ==
    /\ \A i \in 1..4 : m_mask[i] \in 0..255
    /\ m_i = m_cidr =>
          /\ m_mask = calculate_mask(m_cidr)
          /\ \A i \in 1..4 : \A j \in 0..7 :
                 Bit(m_mask[i], j) = IF j < Min(8, Max(0, m_cidr - 8 * (i - 1))) THEN 1 ELSE 0
          /\ m_cidr = 0 => m_mask = <<0, 0, 0, 0>>
          /\ m_cidr = 24 => m_mask = <<255, 255, 255, 0>>
          /\ m_cidr = 32 => m_mask = <<255, 255, 255, 255>>

\* the loop has ended for a prefix length that ends inside an octet
C2_Witness == m_cidr = 19 /\ m_i = m_cidr /\ m_mask = <<255, 255, 224, 0>>

AllExcluded ==
    /\ SrcNets # {}
    /\ \A x \in Probes(SrcNets \cup ExclNets) : Covered(SrcNets, x) => Covered(ExclNets, x)

RECURSIVE AddAll(_, _)
AddAll(cidrs, nets) ==
    IF nets = <<>> THEN cidrs ELSE AddAll(add(cidrs, Head(nets)), Tail(nets))

\* the set that holds the networks of S and nothing else, added in address order
SetOf(S) == AddAll({}, sorted({cidr(n) : n \in S}))

SkipMessage(msg, raw) == [msg |-> msg, line |-> strip(raw)]

\* what the run holds, whatever malformed lines it has read: a message for
\* each of them, and the sets and the list that the valid lines alone give
C6_State ==
    /\ \A raw \in srcSeen :
           IsMalformedLine(raw) => SkipMessage("Skipping invalid network", raw) \in diag
    /\ \A raw \in exclSeen :
           IsMalformedLine(raw) => SkipMessage("Skipping invalid exclusion", raw) \in diag
    /\ \A i \in 1..Len(ip_list) :
           (i < gen_idx /\ IsMalformedLine(ip_list[i]))
               => SkipMessage("Skipping invalid IP/CIDR", ip_list[i]) \in diag
    /\ pc \in {"read", "gate", "excl"} =>
           merged_set = SetOf(SrcNets) /\ exclude_set = SetOf(ExclNets)
    /\ (MergeOver /\ list_src = "merge") =>
           Emitted = iter_cidrs(difference(SetOf(SrcNets), SetOf(ExclNets)))

\* what a step that reads a malformed line does: the set, the flag and the
\* command list stay as they were, the message is printed, the loop goes on
C6_Step ==
    /\ \A raw \in srcSeen' \ srcSeen :
           IsMalformedLine(raw) =>
               /\ merged_set' = merged_set /\ success' = success
               /\ SkipMessage("Skipping invalid network", raw) \in diag'
               /\ pc' = pc
    /\ \A raw \in exclSeen' \ exclSeen :
           IsMalformedLine(raw) =>
               /\ exclude_set' = exclude_set
               /\ SkipMessage("Skipping invalid exclusion", raw) \in diag'
               /\ pc' = pc
    /\ (pc = "gen_read" /\ gen_idx' = gen_idx + 1 /\ IsMalformedLine(ip_list[gen_idx])) =>
           /\ commands' = commands
           /\ SkipMessage("Skipping invalid IP/CIDR", ip_list[gen_idx]) \in diag'
           /\ pc' = pc

\* C6: a malformed line of a source, of the exclusion list or of the list file
\* is reported with its text and skipped; the run goes on; the sets and the
\* result are those of the valid lines alone
C6_Tolerant == [][C6_Step]_vars /\ []C6_State

\* malformed lines were read from a source and from the exclusions, and the
\* merge went on to write its list
C6_Witness ==
    /\ merge_ret = "ok"
    /\ \E l \in srcSeen : IsMalformedLine(l)
    /\ \E l \in exclSeen : IsMalformedLine(l)
    /\ Len(Emitted) >= 2

DocLines == SplitLines(doc, <<>>)

\* a list line that gives a block: an address and a prefix length
IsBlockLine(raw) == IsValidLine(raw) /\ contains(raw, "/")

\* the octet whose top k bits are set
TopBits(k) == 256 - 2 ^ (8 - k)

\* the mask of a prefix length, as text
MaskText(p) ==
    <<ToString(TopBits(Keep(p, 1))), ".", ToString(TopBits(Keep(p, 2))), ".",
      ToString(TopBits(Keep(p, 3))), ".", ToString(TopBits(Keep(p, 4)))>>

\* the command line of a block line: the address as written, then the mask
CommandOf(raw) ==
    <<first_command, " ">> \o BeforeSlash(strip(raw)) \o <<" ">>
        \o MaskText(IPNetwork(strip(raw)).p) \o <<" ", second_command>>

RECURSIVE CommandsOf(_)
CommandsOf(lines) ==
    IF lines = <<>> THEN <<>>
    ELSE (IF IsBlockLine(Head(lines)) THEN <<CommandOf(Head(lines))>> ELSE <<>>)
             \o CommandsOf(Tail(lines))

EndLine == <<<<"end">>>>

\* the generator has run on the list file and ended
GenOver == pc = "done" /\ list_src # "none"

\* C7 as claimed: the document is one command line per block of the list, in
\* order, then a line "end", and just "end" for an empty list
C7_AsClaimed ==
    GenOver => doc_written /\ DocLines = CommandsOf(ip_list) \o EndLine

\* C7, amended: for a list file that is not empty the document is, in
\* rtbh_pusher.py after a first line "no ip route *", one command line per block
\* of the list, in order, joined by single newlines, then a last line "end" with
\* no newline after it, and just "end" when the list gives no command line; for
\* an empty list file the generator fails and writes no document
C7_Document ==
    GenOver =>
        /\ ip_list # <<>> =>
              /\ gen_ret = "ok" /\ doc_written
              /\ DocLines = (IF variant = "pusher" THEN <<<<"no ip route *">>>> ELSE <<>>)
                                \o CommandsOf(ip_list) \o EndLine
        /\ ip_list = <<>> => gen_ret = "empty_list" /\ ~doc_written /\ doc = <<>>

\* rtbh_pusher.py has rendered a merged list of several blocks
C7_Witness ==
    /\ GenOver /\ variant = "pusher" /\ list_src = "merge"
    /\ Len(commands) >= 2

\* block n lies inside block m
Inside(n, m) == m.p <= n.p /\ Covers(m, n.a)

LeftHalf(b) == [a |-> b.a, p |-> b.p + 1]
RightHalf(b) == next(LeftHalf(b))

\* the fewest blocks that cover exactly the addresses of block b that lie in a
\* network of S and in no network of E, found from the top down
RECURSIVE Canon(_, _, _)
Canon(S, E, b) ==
    LET halves ==
            LET l == Canon(S, E, LeftHalf(b))
                r == Canon(S, E, RightHalf(b))
            IN IF l = {LeftHalf(b)} /\ r = {RightHalf(b)} THEN {b} ELSE l \cup r
    IN IF \E e \in E : Inside(b, e) THEN {}
       ELSE IF \E n \in S : Inside(b, n)
       THEN IF \E e \in E : Inside(e, b) THEN halves ELSE {b}
       ELSE IF \E n \in S : Inside(n, b) THEN halves ELSE {}

Whole == [a |-> <<0, 0, 0, 0>>, p |-> 0]

\* the smallest block that holds every network of S
Hull(S) ==
    IF S = {} THEN Whole
    ELSE LET x == (CHOOSE n \in S : TRUE).a
             fits(q) == \A n \in S : Inside(n, [a |-> x, p |-> q])
             p == CHOOSE q \in 0..AddrWidth :
                      fits(q) /\ \A r \in (q + 1)..AddrWidth : ~fits(r)
         IN cidr([a |-> x, p |-> p])

\* the addresses of the command lines of the document, in order
DocAddresses ==
    LET cmds == SelectSeq(DocLines, LAMBDA l : l # <<>> /\ Head(l) = first_command)
    IN [i \in 1..Len(cmds) |-> SubSeq(cmds[i], 3, 9)]

\* C8: the merge writes its blocks in strictly ascending address order, and
\* which blocks it writes depends only on the set of source networks and the
\* set of exclusions, not on the files or the order they came in; the generator
\* writes the command lines in the order of the list
C8_Ordered ==
    /\ MergeOver =>
          /\ \A i, j \in 1..Len(Emitted) : i < j => AddrLT(Emitted[i].a, Emitted[j].a)
          /\ ToSet(Emitted) = Canon(SrcNets, ExclNets, Hull(SrcNets))
    /\ (GenOver /\ gen_ret = "ok" /\ list_src = "merge") =>
          DocAddresses = [i \in 1..Len(Emitted) |-> AddrStr(Emitted[i].a)]

\* networks read from two files were merged, cut, and rendered
C8_Witness ==
    /\ GenOver /\ gen_ret = "ok" /\ list_src = "merge"
    /\ nfiles = 2
    /\ Cardinality(SrcNets) >= 2
    /\ Len(Emitted) >= 3

HostMask == <<"255", ".", "255", ".", "255", ".", "255">>

\* C9: a valid line without "/" counts as a /32 host wherever lines are parsed:
\* the merge covers its address, and the generator writes a command line for it
\* with the mask 255.255.255.255
C9_HostLine ==
    /\ pc \in {"read", "gate", "excl"} =>
          \A raw \in srcSeen :
              (IsValidLine(raw) /\ ~contains(raw, "/"))
                  => Covered(merged_set, IPNetwork(strip(raw)).a)
    /\ (GenOver /\ gen_ret = "ok") =>
          \A i \in 1..Len(ip_list) :
              (IsValidLine(ip_list[i]) /\ ~contains(ip_list[i], "/"))
                  => \E k \in 1..Len(DocLines) :
                         DocLines[k] = <<first_command, " ">> \o strip(ip_list[i])
                                           \o <<" ">> \o HostMask \o <<" ", second_command>>

\* C10: a line that is blank, or that holds a "#", is passed over: no message
\* names it and it gives no block
C10_CommentSkipped ==
    /\ \A raw \in srcSeen \cup exclSeen :
           IsSkipLine(raw) => \A d \in diag : d.line # strip(raw)
    /\ \A i \in 1..Len(ip_list) :
           (i < gen_idx /\ IsSkipLine(ip_list[i])) => \A d \in diag : d.line # strip(ip_list[i])
    /\ pc = "read" => merged_set = SetOf(NetsOf({l \in srcSeen : ~IsSkipLine(l)}))

\* the download of source u reported success, reported failure
FetchOk(u) == u \in urls /\ task[u] = "ok"
FetchFailed(u) == u \in urls /\ task[u] = "failed"

\* download_ip_lists has returned
Gathered == stage \notin {"idle", "start", "download"}

\* the networks source u serves
BodyNets(u) == NetsOf({Body(u)[k] : k \in 1..Len(Body(u))})

\* C11: with at least one successful fetch the run goes on to the merge, and a
\* source whose fetch failed (status, exception, or an error part-way through
\* the transfer) gives the merged set no network; with no successful fetch the
\* run ends before the merge
C11_FailedFetch ==
    /\ Gathered =>
          /\ (\E u \in urls : FetchOk(u)) <=> (\E i \in 1..Len(calls) : calls[i] = "merge")
          /\ (~\E u \in urls : FetchOk(u)) => stage = "exit1" /\ merge_ret = "none"
    /\ (Gathered /\ merge_ret # "none") =>
          \A u \in urls :
              FetchFailed(u) =>
                  \A n \in BodyNets(u) :
                      Covered(merged_set, first(n))
                          => \E v \in urls : FetchOk(v) /\ Covered(BodyNets(v), first(n))

\* C12: cutting an excluded block out of a stored block of prefix length p that
\* holds it leaves between 0 and 32 child blocks, and no more than 32 - p; they
\* are pairwise disjoint and cover exactly the addresses of the stored block
\* that the excluded block does not hold
C12_Cut ==
    c_done =>
        LET frags == {c_frags[i] : i \in 1..Len(c_frags)}
        IN /\ Cardinality(frags) = Len(c_frags)
           /\ Len(c_frags) \in 0..32
           /\ Len(c_frags) <= AddrWidth - c_target.p
           /\ \A f \in frags :
                  f.p > c_target.p /\ f.a = LowAddr(f) /\ Covers(c_target, f.a)
           /\ \A m, n \in frags : m # n => ~Overlap(m, n)
           /\ \A x \in Probes(frags \cup {c_target, c_exclude}) :
                  Covered(frags, x) <=> (Covers(c_target, x) /\ ~Covers(c_exclude, x))

\* 10.0.0.0/24 without 10.0.0.128/25 is 10.0.0.0/25
C12_Witness ==
    /\ c_done
    /\ c_target = [a |-> <<10, 0, 0, 0>>, p |-> 24]
    /\ c_exclude = [a |-> <<10, 0, 0, 128>>, p |-> 25]
    /\ c_frags = <<[a |-> <<10, 0, 0, 0>>, p |-> 25]>>

StageOrder == <<"download", "merge", "generate", "upload", "apply">>
Called(name) == \E i \in 1..Len(calls) : calls[i] = name

\* a stage that was called has failed
DownloadFailed == Called("download") /\ Gathered /\ ~\E u \in urls : FetchOk(u)
MergeFailed == merge_ret \notin {"none", "ok"}
GenerateFailed == gen_ret \notin {"none", "ok"}
UploadFailed == upload_res \notin {"none", "ok"}
ApplyFailed == apply_res \notin {"none", "ok"}

\* C13: main() calls download, merge, generate, upload, apply in this order and
\* calls a stage only after every earlier one succeeded: no upload or apply
\* after a failed download, merge or generation, no apply unless the upload
\* returned, neither of the two with --no-upload; and the process ends with
\* status 1 whenever a stage failed
C13_Stages ==
    /\ calls = SubSeq(StageOrder, 1, Len(calls))
    /\ Called("upload") =>
          ~DownloadFailed /\ merge_ret = "ok" /\ gen_ret = "ok"
    /\ Called("apply") => upload_res = "ok" /\ Called("upload")
    /\ no_upload => ~Called("upload") /\ ~Called("apply")
    /\ stage = "exit0" =>
          ~(DownloadFailed \/ MergeFailed \/ GenerateFailed \/ UploadFailed \/ ApplyFailed)

\* C14: no two downloads that report success write to one path under
\* raw_lists, so whatever the order of the chunk writes the file of every
\* successful download holds that source's content intact, and there are as
\* many files of successful downloads as successful downloads
C14_OwnFile ==
    Gathered =>
        LET ok == {u \in urls : FetchOk(u)}
        IN /\ \A u, v \in ok : u # v => fname[u] # fname[v]
           /\ \A u \in ok :
                  fname[u] \in DOMAIN raw_lists /\ raw_lists[fname[u]] = Body(u)
           /\ Cardinality(ok) = Cardinality({fname[u] : u \in ok})

\* a AND m, for two octets
OctetAnd(a, m) ==
    LET W(j) == Bit(a, j) * Bit(m, j) * 2 ^ (7 - j)
    IN W(0) + W(1) + W(2) + W(3) + W(4) + W(5) + W(6) + W(7)

\* the command lines of the document
DocCommands == SelectSeq(DocLines, LAMBDA l : l # <<>> /\ Head(l) = first_command)

\* the address and the mask of a command line, as octets
CmdAddr(l) == [i \in 1..4 |-> DecVal[l[2 * i + 1]]]
CmdMask(l) == [i \in 1..4 |-> DecVal[l[2 * i + 9]]]

\* C15: when the generator renders the list the merge wrote, every block of
\* the list gets a command line, and the address of every command line is the
\* network address of its mask (address AND mask = address), also for source
\* lines with host bits beyond their prefix
C15_Canonical ==
    (GenOver /\ gen_ret = "ok" /\ list_src = "merge") =>
        LET cmds == DocCommands
        IN /\ Len(cmds) = Len(ip_list)
           /\ \A k \in 1..Len(cmds) :
                  /\ Len(cmds[k]) = 19
                  /\ LET addr == CmdAddr(cmds[k])
                         mask == CmdMask(cmds[k])
                     IN \A i \in 1..4 : OctetAnd(addr[i], mask[i]) = addr[i]

\* the source line 10.0.0.77/24 was rendered as 10.0.0.0 255.255.255.0
C15_Witness ==
    /\ GenOver /\ gen_ret = "ok" /\ list_src = "merge"
    /\ Q(10, 0, 0, 77) \o <<"/", "24">> \o NL \in srcSeen
    /\ \E k \in 1..Len(DocLines) :
           DocLines[k] = <<first_command, " ">> \o Q(10, 0, 0, 0) \o <<" ">>
                             \o Q(255, 255, 255, 0) \o <<" ", second_command>>

====
